---- MODULE Spec2Model ----
(***************************************************************************)
(* Plant Ranger Alexa skill backend: credential resolution                 *)
(* (lambda/alexa-handler.ts getAccessToken, lambda/utils/oauth.ts),        *)
(* the remote API client (lambda/utils/api-client.ts) and the intent       *)
(* dispatcher and handlers (lambda/alexa-handler.ts).                      *)
(*                                                                         *)
(* One invocation of the Lambda handler is a run idle -> ... -> done;      *)
(* every action is the code between two awaits on an external service      *)
(* (token store, token endpoint, remote plant API).  What the external     *)
(* services answer is drawn with \E from bounded sets.                     *)
(*                                                                         *)
(* RaceSpec follows two invocations of getAccessToken for one user that    *)
(* run at the same time, one await at a step.                              *)
(***************************************************************************)
EXTENDS Integers, Sequences, FiniteSets, TLC

(* ------------------------------ bounds --------------------------------- *)
MaxTime == 2
MaxExpiresIn == 1
MaxIssued == 1
MaxTeams == 2
MaxPlants == 2
MaxSecretReads == 2
MaxRaceIssued == 2

\* Keys of the token table, and the users whose events are followed.
Users == {"u1", "u2"}
Callers == {"u1"}

(* ------------------------------ tokens --------------------------------- *)
\* A token string is a pair <<origin, n>>; undefined and '' are the two falsy ones.
NoTok == <<"none", 0>>
EmptyTok == <<"empty", 0>>
EnvTok == <<"env", 0>>
Truthy(t) == t[1] \notin {"none", "empty"}

CtxTokens == {NoTok, EmptyTok, <<"ev", 1>>}
SesTokens == {NoTok, <<"ev", 2>>}
IssuedTokens == {<<"at", n>> : n \in 1..MaxIssued}

\* The records present at the start expire at InitExpiry.
InitExpiry == 1

\* Token records of the store: Item.token, Item.refreshToken, Item.expiresAt.
InitRecords ==
  { [token |-> <<"st", 0>>, refreshToken |-> rt, expiresAt |-> e] :
      rt \in {NoTok, <<"rt", 0>>}, e \in {InitExpiry} }

\* What the token endpoint answers to a refresh: a failure or response.data.
RefreshFailed == [ok |-> FALSE, access_token |-> NoTok, refresh_token |-> NoTok, expires_in |-> 0]
RefreshResponses ==
  { [ok |-> TRUE, access_token |-> a, refresh_token |-> r, expires_in |-> x] :
      a \in IssuedTokens, r \in {NoTok, <<"rt", 1>>}, x \in 1..MaxExpiresIn }
  \cup {RefreshFailed}

(* --------------------------- remote plant API -------------------------- *)
HttpFail == {"401", "403", "404", "500", "timeout"}

\* Error messages thrown by ApiClient, by what the handlers test on them.
CheckPlantHealthError(o) ==
  IF o = "500" THEN "Plant health service is temporarily unavailable"
  ELSE IF o = "timeout" THEN "Request timeout - please try again"
  ELSE "Failed to retrieve plant health data"

GetTeamsError(o) ==
  IF o = "401" THEN "Unauthorized - please link your account"
  ELSE "Failed to retrieve teams"

GetTeamDetailsError(o) ==
  IF o = "404" THEN "Team not found"
  ELSE IF o = "401" THEN "Unauthorized - please link your account"
  ELSE "Failed to retrieve team details"

GetPlantDetailsError(o) ==
  IF o = "404" THEN "Plant not found"
  ELSE IF o = "401" THEN "Unauthorized - please link your account"
  ELSE "Failed to retrieve plant details"

\* The Error an ApiClient method throws when the HTTP call fails with o.
ApiFailure(op, o) ==
  [op |-> op, status |-> o,
   message |-> CASE op = "checkPlantHealth" -> CheckPlantHealthError(o)
                 [] op = "getTeams" -> GetTeamsError(o)
                 [] op = "getTeamDetails" -> GetTeamDetailsError(o)
                 [] OTHER -> GetPlantDetailsError(o)]
NoErr == [op |-> "", status |-> "", message |-> ""]

\* error.message.includes('Unauthorized')
IncludesUnauthorized(msg) == msg = "Unauthorized - please link your account"

\* response.data.status of GET /health ("" stands for a missing status).
HealthStatuses == {"healthy", ""}
ApiStatus(s) == IF s = "" THEN "Unknown" ELSE s

(* ----------------------------- strings --------------------------------- *)
\* A string is a sequence of one-character strings.
Lower(c) == CASE c = "K" -> "k" [] c = "T" -> "t" [] c = "O" -> "o" [] OTHER -> c
\* (variant: the names are compared as they are spelled)
ToLowerCase_AsSpelled(s) == s

\* s.toLowerCase()
ToLowerCase(s) == [i \in 1..Len(s) |-> Lower(s[i])]
IsSpace(c) == c = " "

RECURSIVE TrimStart(_)
TrimStart(s) == IF s # <<>> /\ IsSpace(Head(s)) THEN TrimStart(Tail(s)) ELSE s
RECURSIVE TrimEnd(_)
TrimEnd(s) ==
  IF s # <<>> /\ IsSpace(s[Len(s)]) THEN TrimEnd(SubSeq(s, 1, Len(s) - 1)) ELSE s
Trim(s) == TrimEnd(TrimStart(s))

\* s.replace(/^team\s+/, '')
StripTeamPrefix(s) ==
  IF Len(s) >= 5 /\ SubSeq(s, 1, 4) = <<"t", "e", "a", "m">> /\ IsSpace(s[5])
  THEN TrimStart(SubSeq(s, 5, Len(s)))
  ELSE s

\* s.includes(sub)
Includes(s, sub) ==
  \E i \in 1..(Len(s) + 1) :
    /\ i + Len(sub) - 1 <= Len(s)
    /\ SubSeq(s, i, i + Len(sub) - 1) = sub

NormalizeTeamName(s) == StripTeamPrefix(Trim(ToLowerCase(s)))

TeamMatches(team, normalized) ==
  LET teamNameLower == ToLowerCase(team.name) IN
    \/ Includes(teamNameLower, normalized)
    \/ Includes(normalized, teamNameLower)
    \/ teamNameLower = normalized

\* teams.find(...): index of the first matching team, 0 when there is none.
FindTeam(teams, normalized) ==
  IF \E i \in 1..Len(teams) : TeamMatches(teams[i], normalized)
  THEN CHOOSE i \in 1..Len(teams) :
         /\ TeamMatches(teams[i], normalized)
         /\ \A j \in 1..(i - 1) : ~TeamMatches(teams[j], normalized)
  ELSE 0

\* Team names the API returns (<<>> is an empty or missing name) and the
\* TeamName slot values of the event.
TeamNames == {<<>>, <<"k">>, <<"O">>}
SpokenNames ==
  { [def |-> FALSE, val |-> <<>>],
    [def |-> TRUE, val |-> <<" ">>],
    [def |-> TRUE, val |-> <<"K">>],
    [def |-> TRUE, val |-> <<"T", "e", "a", "m", " ", "o">>],
    [def |-> TRUE, val |-> <<"m">>] }

RECURSIVE SeqsUpTo(_, _)
SeqsUpTo(S, n) ==
  IF n = 0 THEN {<<>>}
  ELSE LET shorter == SeqsUpTo(S, n - 1) IN
       shorter \cup { Append(s, x) : s \in {t \in shorter : Len(t) = n - 1}, x \in S }

\* teamsResponse.teams || []  (team ids are the positions in the list)
TeamLists ==
  { [i \in 1..Len(ns) |-> [id |-> i, name |-> ns[i]]] : ns \in SeqsUpTo(TeamNames, MaxTeams) }

\* teams.map((t) => t.name || 'Unnamed Team')
UnnamedTeam == <<"U", "n", "n", "a", "m", "e", "d", " ", "T", "e", "a", "m">>
ListedNames(list) ==
  [i \in 1..Len(list) |-> IF list[i].name = <<>> THEN UnnamedTeam ELSE list[i].name]

\* The names of the teams as the API returned them.
NamesOf(list) == [i \in 1..Len(list) |-> list[i].name]

(* ------------------------- plants and checkups ------------------------- *)
\* A plant entry of a team-detail payload: status, needs_water, needsWater.
PlantSummaries ==
  { [status |-> "needs_water", needs_water |-> FALSE, needsWater |-> FALSE],
    [status |-> "", needs_water |-> FALSE, needsWater |-> TRUE],
    [status |-> "", needs_water |-> FALSE, needsWater |-> FALSE] }

\* A plant-detail payload: status, needs_water, needsWater, checkups[].
NoFlags == [status |-> "", needs_watered |-> FALSE, needsWatered |-> FALSE]
PlantDetails ==
  { [status |-> "needs_water", needs_water |-> FALSE, needsWater |-> FALSE, checkups |-> <<>>],
    [status |-> "needs water", needs_water |-> FALSE, needsWater |-> FALSE, checkups |-> <<>>],
    [status |-> "", needs_water |-> TRUE, needsWater |-> FALSE, checkups |-> <<>>],
    [status |-> "", needs_water |-> FALSE, needsWater |-> FALSE, checkups |-> <<>>],
    [status |-> "", needs_water |-> FALSE, needsWater |-> FALSE,
     checkups |-> <<[NoFlags EXCEPT !.needs_watered = TRUE], NoFlags>>],
    [status |-> "", needs_water |-> FALSE, needsWater |-> FALSE,
     checkups |-> <<NoFlags, [NoFlags EXCEPT !.status = "needs_water"]>>] }

\* handleListPlantStatus: what the team-detail entry alone says.
SummaryNeedsWater(p) ==
  \/ p.status = "needs_water" \/ p.status = "needs water"
  \/ p.needs_water = TRUE \/ p.needsWater = TRUE

CheckupNeedsWaterList(c) ==
  \/ c.status = "needs_water" \/ c.status = "needs water"
  \/ c.needs_watered = TRUE \/ c.needsWatered = TRUE

\* handleListPlantStatus: what the plant-detail payload says.
DetailNeedsWaterList(d) ==
  IF d.status = "needs_water" \/ d.status = "needs water" THEN TRUE
  ELSE IF d.needs_water = TRUE \/ d.needsWater = TRUE THEN TRUE
  ELSE IF Len(d.checkups) > 0 THEN CheckupNeedsWaterList(d.checkups[1])
  ELSE FALSE

\* handleCheckTeamPlantStatus: what the plant-detail payload says.
DetailNeedsWaterTeam(d) ==
  IF d.status = "needs_water" THEN TRUE
  ELSE IF Len(d.checkups) > 0
       THEN LET c == d.checkups[1] IN
            c.status = "needs_water" \/ c.needs_watered \/ c.needsWatered
       ELSE FALSE

(* ------------------------------ requests ------------------------------- *)
TokenIntents ==
  {"CheckPlantHealthIntent", "ListPlantStatusIntent", "CheckTeamPlantStatusIntent",
   "AMAZON.FallbackIntent"}
Intents ==
  TokenIntents \cup {"AMAZON.HelpIntent", "AMAZON.StopIntent", "AMAZON.CancelIntent", "Other"}
RequestTypes == {"LaunchRequest", "IntentRequest", "SessionEndedRequest", "Other"}

NoName == [def |-> FALSE, val |-> <<>>]
NoReq ==
  [type |-> "", intent |-> "", user |-> "", ctxTok |-> NoTok, sesTok |-> NoTok,
   teamName |-> NoName]

Requests ==
  { [type |-> "IntentRequest", intent |-> i, user |-> u, ctxTok |-> c, sesTok |-> s,
     teamName |-> n] :
      i \in Intents, u \in Callers, c \in CtxTokens, s \in SesTokens, n \in SpokenNames }
  \cup
  { [NoReq EXCEPT !.type = t, !.user = u] : t \in RequestTypes \ {"IntentRequest"}, u \in Callers }

\* Only the team intent reads the TeamName slot.
WellFormed(r) ==
  /\ (r.intent # "CheckTeamPlantStatusIntent" => r.teamName = NoName)
  /\ (r.intent \notin TokenIntents => r.ctxTok = NoTok /\ r.sesTok = NoTok)

\* The Lambda event around the Alexa request: typeof event.body, whether the
\* event has a 'resource' property, and what is found where the request should be.
NoEvent == [body |-> "absent", resource |-> FALSE, shape |-> "ok"]
Envelopes ==
  { [body |-> "absent", resource |-> FALSE],   \* direct Alexa invocation
    [body |-> "string", resource |-> TRUE],    \* API Gateway proxy
    [body |-> "string", resource |-> FALSE],   \* local-test.js
    [body |-> "object", resource |-> FALSE] }  \* body already parsed
Shapes == {"ok", "badJson", "noRequest", "noIntent"}

\* The requests followed behind a body: in a body that is a string those with
\* the token in context.System.user, in a body already parsed those that need
\* no token.
BodyRequests(body) ==
  { r \in Requests :
      r.intent \in TokenIntents =>
        body = "string" /\ r.ctxTok = <<"ev", 1>> /\ r.sesTok = NoTok }

\* The inbound events: an envelope, and the Alexa request in it when there is one.
Events ==
  { [env |-> NoEvent, r |-> r] : r \in Requests }
  \cup
  UNION { { [env |-> [body |-> e.body, resource |-> e.resource, shape |-> "ok"], r |-> r] :
              r \in BodyRequests(e.body) } :
            e \in Envelopes \ {[body |-> "absent", resource |-> FALSE]} }
  \cup
  { x \in { [env |-> [body |-> e.body, resource |-> e.resource, shape |-> sh],
              r |-> IF sh = "noIntent"
                    THEN [NoReq EXCEPT !.type = "IntentRequest", !.user = u]
                    ELSE NoReq] :
              e \in Envelopes, sh \in Shapes \ {"ok"}, u \in Callers } :
      x.env.shape = "badJson" => x.env.body = "string" }

\* JSON.parse throws on a body that is no JSON text; a body of '', '{}' or
\* 'null' and an event without a request make handleAlexaRequest throw a
\* TypeError (request.request is undefined), and an IntentRequest without an
\* intent makes handleIntentRequest throw one (intent.name).
Throws(env) == env.shape # "ok"

(* ------------------------------ responses ------------------------------ *)
Response(speech, card, reprompt, end) ==
  [speech |-> speech, card |-> card, reprompt |-> reprompt, shouldEndSession |-> end,
   total |-> 0, needs |-> 0, names |-> <<>>]

NoResp == Response("", "", FALSE, FALSE)

\* (variant: the error response leaves the session open)
createErrorResponse_KeepsOpen(message) == Response(message, "", FALSE, FALSE)

createErrorResponse(message) == Response(message, "", FALSE, TRUE)

LinkHealthText == "To check your plant health, you need to link your Plant Ranger account first."
LinkStatusText == "To check your plant status, you need to link your Plant Ranger account first."
HealthApology == "Sorry, I couldn't check your plant health right now. Please try again later."
ListApology == "Sorry, I couldn't retrieve your plant status right now. Please try again later."
TeamApology == "Sorry, I couldn't retrieve the plant status for that team right now. Please try again later."

\* (variant: the launch response ends the session)
handleLaunchRequest_Closes == Response("Welcome to Plant Ranger Check!", "", TRUE, TRUE)

handleLaunchRequest == Response("Welcome to Plant Ranger Check!", "", TRUE, FALSE)
handleHelpIntent == Response("Plant Ranger Check can help you monitor your plant health.", "", TRUE, FALSE)
handleStopIntent == Response("Goodbye! Take care of your plants!", "", FALSE, TRUE)
handleSessionEndedRequest == Response("", "", FALSE, TRUE)

\* The errorResponse of the catch of handler.
HandlerApology ==
  "Sorry, I encountered an error while processing your request. Please try again later."

\* What handleAlexaRequest yields: a response, or an error thrown.
Returns(r) == [thrown |-> FALSE, resp |-> r]
Thrown == [thrown |-> TRUE, resp |-> Response("", "", FALSE, FALSE)]

\* (variant: the entry point lets the error through)
HandlerCatch_Rethrows(out) == out.resp

\* handler: try { ... } catch (error) { errorResponse }
HandlerCatch(out) == IF out.thrown THEN createErrorResponse(HandlerApology) ELSE out.resp

\* The intents whose handler resolves a token.
NeedsToken(r) == r.type = "IntentRequest" /\ r.intent \in TokenIntents

\* (variant: an unknown type or intent is answered with the help text)
Immediate_DefaultHelp(r) ==
  IF r.type = "LaunchRequest" THEN handleLaunchRequest
  ELSE IF r.type = "SessionEndedRequest" THEN handleSessionEndedRequest
  ELSE IF r.type = "IntentRequest" /\ r.intent \in {"AMAZON.StopIntent", "AMAZON.CancelIntent"}
  THEN handleStopIntent
  ELSE handleHelpIntent

\* handleAlexaRequest and handleIntentRequest, the cases that await nothing.
Immediate(r) ==
  IF r.type = "LaunchRequest" THEN handleLaunchRequest
  ELSE IF r.type = "SessionEndedRequest" THEN handleSessionEndedRequest
  ELSE IF r.type # "IntentRequest" THEN createErrorResponse("Unknown request type")
  ELSE IF r.intent = "AMAZON.HelpIntent" THEN handleHelpIntent
  ELSE IF r.intent \in {"AMAZON.StopIntent", "AMAZON.CancelIntent"} THEN handleStopIntent
  ELSE createErrorResponse("I didn't understand that. Please try again.")

\* JSON.stringify(response): a JSON text, which JSON.parse turns back into the
\* response; a property that is not there reads as undefined.
Stringify(response) == [defined |-> TRUE, json |-> response]
UndefinedBody == [defined |-> FALSE, json |-> NoResp]

\* handler: what is returned for the response (or errorResponse) once it is
\* built: an APIGatewayProxyResult if the event has a 'resource' property, else
\* the response itself (statusCode 0 stands for a result without a statusCode).
HandlerResult(env, response) ==
  IF env.resource
  THEN [statusCode |-> 200, contentType |-> "application/json",
        body |-> Stringify(response), response |-> NoResp]
  ELSE [statusCode |-> 0, contentType |-> "", body |-> UndefinedBody, response |-> response]

(* ------------------------------- state --------------------------------- *)
VARIABLES
  store,        \* token table: user id -> record, for the users that have one
  store0,       \* the token table as it was when the event in progress arrived
  now,          \* Date.now()
  staticToken,  \* process.env.PLANT_RANGER_API_TOKEN
  secretReads,  \* reads of the secret store by this process so far
  pc,           \* position of the invocation in progress
  event,        \* the envelope of the inbound event
  req,          \* the Alexa request of the inbound event
  tokRes,       \* outcome of getAccessToken
  log,          \* calls made by getAccessToken in this invocation, in order
  calls,        \* calls made to the remote plant API in this invocation
  teams,        \* ids of const teams (the list handler reads nothing else of them)
  ti,           \* position of the loop over teams
  matchingTeam, \* const matchingTeam
  plantsLeft,   \* entries of const plants the loop has not visited yet
  acc,          \* allPlants / teamPlants: its length and how many have needsWatered
  lastPlant,    \* const plant, plantDetails, needsWatered of the iteration that just ran
  world,        \* what the remote API did during the loops; the names of const teams
                \* of the team handler up to their last use (the match); the error
                \* ApiClient threw in the step just taken
  resp,         \* the AlexaResponse returned
  race          \* two invocations for one user that run at the same time

vars ==
  <<store, store0, now, staticToken, secretReads, pc, event, req, tokRes, log, calls, teams, ti, matchingTeam, plantsLeft, acc,
    lastPlant, world, resp, race>>

loopVars == <<teams, ti, matchingTeam, plantsLeft, acc, lastPlant, world>>
procVars == <<store, store0, now, staticToken, secretReads, race>>

NoTeam == [id |-> 0, name |-> <<>>]
NoPlants == [total |-> 0, needs |-> 0]
NoSummary == [status |-> "", needs_water |-> FALSE, needsWater |-> FALSE]
NoDetail == [status |-> "", needs_water |-> FALSE, needsWater |-> FALSE, checkups |-> <<>>]
NoPlant ==
  [summary |-> NoSummary, call |-> "", detail |-> NoDetail, needsWatered |-> FALSE,
   pushed |-> FALSE]
NoWorld ==
  [first |-> "", teamFail |-> 0, plantFail |-> 0, seen |-> 0, needing |-> 0, names |-> <<>>,
   err |-> NoErr]

NoRes == [kind |-> "unset", token |-> NoTok, source |-> "", msg |-> ""]

\* The two invocations: where each is in getAccessToken, the token set it read,
\* the answer of the token endpoint to it and what it got; and the order in
\* which their puts reached the table.
Invocations == {1, 2}
RaceUser == "u1"
NoInv ==
  [pc |-> "start",
   tokens |-> [accessToken |-> NoTok, refreshToken |-> NoTok, expiresAt |-> 0],
   response |-> RefreshFailed,
   result |-> NoRes]
NoRace == [inv |-> [i \in Invocations |-> NoInv], writes |-> <<>>]

\* A call of getAccessToken to the token table, the secret store or the token
\* endpoint: what was sent (key, tok), whether it succeeded and the access
\* token it yielded.
Call(op, key, tok, res, out) == [op |-> op, key |-> key, tok |-> tok, res |-> res, out |-> out]
\* A call to the remote plant API with the bearer token it carries.
ApiCall(op, tok) == [op |-> op, tok |-> tok]

Init ==
  /\ store \in UNION { [D -> InitRecords] : D \in SUBSET Users }
  /\ store0 = store
  /\ now = 0
  /\ staticToken \in {NoTok, EnvTok}
  /\ secretReads = 0
  /\ pc = "idle"
  /\ event = NoEvent
  /\ req = NoReq
  /\ tokRes = NoRes
  /\ log = <<>>
  /\ calls = {}
  /\ teams = <<>> /\ ti = 0 /\ matchingTeam = NoTeam /\ plantsLeft = 0
  /\ acc = NoPlants /\ lastPlant = NoPlant /\ world = NoWorld
  /\ resp = NoResp
  /\ race = NoRace

(* ------------------------ credential resolution ------------------------ *)
\* (variant: a token is taken for expired one tick early)
Expired_Early(t, tokens) == t + 1 >= tokens.expiresAt

\* Date.now() >= tokens.expiresAt
Expired(t, tokens) == t >= tokens.expiresAt

\* (variant: the item keeps the refresh token in the place of the access token)
UpdatedItem_WrongToken(t, tokenResponse) ==
  [token |-> tokenResponse.refresh_token,
   refreshToken |-> NoTok,
   expiresAt |-> t + tokenResponse.expires_in]

\* OAuthManager.updateTokens: the item put under (userId, 'access').
UpdatedItem(t, tokenResponse) ==
  [token |-> tokenResponse.access_token,
   refreshToken |-> NoTok,
   expiresAt |-> t + tokenResponse.expires_in]

\* (variant: the put is conditional, it writes only where no record exists)
PutItem_IfAbsent(table, userId, item) ==
  IF userId \in DOMAIN table THEN table
  ELSE [u \in (DOMAIN table) \cup {userId} |-> IF u = userId THEN item ELSE table[u]]

\* (variant: the put leaves the written record alone in the table)
PutItem_Alone(table, userId, item) == [u \in {userId} |-> item]

\* dynamodb.put: the table with the item under the key userId.
PutItem(table, userId, item) ==
  [u \in (DOMAIN table) \cup {userId} |-> IF u = userId THEN item ELSE table[u]]

\* (variant: the token set returned keeps the access token that was read)
RefreshedTokens_Stale(t, tokens, tokenResponse) ==
  [accessToken |-> tokens.accessToken,
   refreshToken |-> IF Truthy(tokenResponse.refresh_token) THEN tokenResponse.refresh_token
                    ELSE tokens.refreshToken,
   expiresAt |-> t + tokenResponse.expires_in]

\* OAuthManager.ensureValidTokens: the token set returned after a refresh.
RefreshedTokens(t, tokens, tokenResponse) ==
  [accessToken |-> tokenResponse.access_token,
   refreshToken |-> IF Truthy(tokenResponse.refresh_token) THEN tokenResponse.refresh_token
                    ELSE tokens.refreshToken,
   expiresAt |-> t + tokenResponse.expires_in]

\* (variant: an error of the put is swallowed and the new token set is returned)
ensureValidTokens_PutUnchecked(userId, tokens, refOut, putOut) ==
  IF Expired(now, tokens)
  THEN IF ~Truthy(tokens.refreshToken)
       THEN [res |-> [kind |-> "throw", token |-> NoTok, source |-> "",
                      msg |-> "No refresh token available"],
             log |-> <<>>, store |-> store]
       ELSE IF ~refOut.ok
       THEN [res |-> [kind |-> "throw", token |-> NoTok, source |-> "",
                      msg |-> "Request failed"],
             log |-> <<Call("getSecretValue", "", NoTok, "ok", NoTok),
                       Call("refresh", userId, tokens.refreshToken, "fail", NoTok)>>,
             store |-> store]
       ELSE [res |-> [kind |-> "tok", token |-> RefreshedTokens(now, tokens, refOut).accessToken,
                      source |-> "refresh", msg |-> ""],
             log |-> <<Call("getSecretValue", "", NoTok, "ok", NoTok),
                       Call("refresh", userId, tokens.refreshToken, "ok", refOut.access_token),
                       Call("put", userId, refOut.access_token, putOut, NoTok)>>,
             store |-> IF putOut = "fail" THEN store
                       ELSE PutItem(store, userId, UpdatedItem(now, refOut))]
  ELSE [res |-> [kind |-> "tok", token |-> tokens.accessToken, source |-> "store", msg |-> ""],
        log |-> <<>>, store |-> store]

\* OAuthManager.ensureValidTokens, given what the token endpoint (refOut) and
\* the put (putOut) answer.  Yields the token set or the error, the calls
\* made and the table afterwards.
ensureValidTokens(userId, tokens, refOut, putOut) ==
  IF Expired(now, tokens)
  THEN IF ~Truthy(tokens.refreshToken)
       THEN [res |-> [kind |-> "throw", token |-> NoTok, source |-> "",
                      msg |-> "No refresh token available"],
             log |-> <<>>, store |-> store]
       ELSE IF ~refOut.ok
       THEN [res |-> [kind |-> "throw", token |-> NoTok, source |-> "",
                      msg |-> "Request failed"],
             log |-> <<Call("getSecretValue", "", NoTok, "ok", NoTok),
                       Call("refresh", userId, tokens.refreshToken, "fail", NoTok)>>,
             store |-> store]
       ELSE IF putOut = "fail"
       THEN [res |-> [kind |-> "throw", token |-> NoTok, source |-> "",
                      msg |-> "Put failed"],
             log |-> <<Call("getSecretValue", "", NoTok, "ok", NoTok),
                       Call("refresh", userId, tokens.refreshToken, "ok", refOut.access_token),
                       Call("put", userId, refOut.access_token, "fail", NoTok)>>,
             store |-> store]
       ELSE [res |-> [kind |-> "tok", token |-> RefreshedTokens(now, tokens, refOut).accessToken,
                      source |-> "refresh", msg |-> ""],
             log |-> <<Call("getSecretValue", "", NoTok, "ok", NoTok),
                       Call("refresh", userId, tokens.refreshToken, "ok", refOut.access_token),
                       Call("put", userId, refOut.access_token, "ok", NoTok)>>,
             store |-> PutItem(store, userId, UpdatedItem(now, refOut))]
  ELSE [res |-> [kind |-> "tok", token |-> tokens.accessToken, source |-> "store", msg |-> ""],
        log |-> <<>>, store |-> store]

\* (variant: a get that fails is tried again and answers)
getTokens_Retry(userId, getOut) ==
  IF userId \in DOMAIN store
  THEN [found |-> TRUE,
        tokens |-> [accessToken |-> store[userId].token,
                    refreshToken |-> store[userId].refreshToken,
                    expiresAt |-> store[userId].expiresAt]]
  ELSE [found |-> FALSE,
        tokens |-> [accessToken |-> NoTok, refreshToken |-> NoTok, expiresAt |-> 0]]

\* OAuthManager.getTokens: the record, or null when there is none or the get fails.
getTokens(userId, getOut) ==
  IF getOut = "ok" /\ userId \in DOMAIN store
  THEN [found |-> TRUE,
        tokens |-> [accessToken |-> store[userId].token,
                    refreshToken |-> store[userId].refreshToken,
                    expiresAt |-> store[userId].expiresAt]]
  ELSE [found |-> FALSE,
        tokens |-> [accessToken |-> NoTok, refreshToken |-> NoTok, expiresAt |-> 0]]

\* request.context.System.user.accessToken || request.session.user.accessToken
TokenFromRequest(r) == IF Truthy(r.ctxTok) THEN r.ctxTok ELSE r.sesTok

\* (variant: the table is consulted before the event's own token)
getAccessToken_StoreFirst(r, getOut, refOut, putOut) ==
  LET got == getTokens(r.user, getOut)
      getCall == <<Call("get", r.user, NoTok, getOut, NoTok)>>
  IN IF got.found
     THEN LET v == ensureValidTokens(r.user, got.tokens, refOut, putOut)
          IN [v EXCEPT !.log = getCall \o v.log]
     ELSE IF Truthy(TokenFromRequest(r))
     THEN [res |-> [kind |-> "tok", token |-> TokenFromRequest(r), source |-> "request",
                    msg |-> ""],
           log |-> getCall, store |-> store]
     ELSE IF Truthy(staticToken)
     THEN [res |-> [kind |-> "tok", token |-> staticToken, source |-> "static", msg |-> ""],
           log |-> getCall, store |-> store]
     ELSE [res |-> [kind |-> "none", token |-> NoTok, source |-> "", msg |-> ""],
           log |-> getCall, store |-> store]

\* (variant: the static token is preferred to the table)
getAccessToken_StaticFirst(r, getOut, refOut, putOut) ==
  IF Truthy(TokenFromRequest(r))
  THEN [res |-> [kind |-> "tok", token |-> TokenFromRequest(r), source |-> "request",
                 msg |-> ""],
        log |-> <<>>, store |-> store]
  ELSE IF Truthy(staticToken)
  THEN [res |-> [kind |-> "tok", token |-> staticToken, source |-> "static", msg |-> ""],
        log |-> <<>>, store |-> store]
  ELSE LET got == getTokens(r.user, getOut)
           getCall == <<Call("get", r.user, NoTok, getOut, NoTok)>>
       IN IF got.found
          THEN LET v == ensureValidTokens(r.user, got.tokens, refOut, putOut)
               IN [v EXCEPT !.log = getCall \o v.log]
          ELSE [res |-> [kind |-> "none", token |-> NoTok, source |-> "", msg |-> ""],
                log |-> getCall, store |-> store]

\* (variant: an error of ensureValidTokens is swallowed and resolution goes on
\* to the static token)
getAccessToken_FallThrough(r, getOut, refOut, putOut) ==
  IF Truthy(TokenFromRequest(r))
  THEN [res |-> [kind |-> "tok", token |-> TokenFromRequest(r), source |-> "request",
                 msg |-> ""],
        log |-> <<>>, store |-> store]
  ELSE LET got == getTokens(r.user, getOut)
           getCall == <<Call("get", r.user, NoTok, getOut, NoTok)>>
           v == ensureValidTokens(r.user, got.tokens, refOut, putOut)
       IN IF got.found /\ v.res.kind # "throw"
          THEN [v EXCEPT !.log = getCall \o v.log]
          ELSE IF Truthy(staticToken)
          THEN [res |-> [kind |-> "tok", token |-> staticToken, source |-> "static",
                         msg |-> ""],
                log |-> getCall \o (IF got.found THEN v.log ELSE <<>>), store |-> store]
          ELSE [res |-> [kind |-> "none", token |-> NoTok, source |-> "", msg |-> ""],
                log |-> getCall \o (IF got.found THEN v.log ELSE <<>>), store |-> store]

\* getAccessToken(request, userId)
getAccessToken(r, getOut, refOut, putOut) ==
  IF Truthy(TokenFromRequest(r))
  THEN [res |-> [kind |-> "tok", token |-> TokenFromRequest(r), source |-> "request",
                 msg |-> ""],
        log |-> <<>>, store |-> store]
  ELSE LET got == getTokens(r.user, getOut)
           getCall == <<Call("get", r.user, NoTok, getOut, NoTok)>>
       IN IF got.found
          THEN LET v == ensureValidTokens(r.user, got.tokens, refOut, putOut)
               IN [v EXCEPT !.log = getCall \o v.log]
          ELSE IF Truthy(staticToken)
          THEN [res |-> [kind |-> "tok", token |-> staticToken, source |-> "static",
                         msg |-> ""],
                log |-> getCall, store |-> store]
          ELSE [res |-> [kind |-> "none", token |-> NoTok, source |-> "", msg |-> ""],
                log |-> getCall, store |-> store]

(* ------------------------------- actions ------------------------------- *)
\* handler + handleAlexaRequest + handleIntentRequest: dispatch of one event.
\* The intents that need a token go on to getAccessToken.
Receive ==
  /\ pc = "idle"
  /\ secretReads < MaxSecretReads
  /\ \E e \in Events :
       /\ WellFormed(e.r)
       /\ event' = e.env
       /\ req' = e.r
       /\ IF ~Throws(e.env) /\ NeedsToken(e.r)
          THEN pc' = "token" /\ resp' = NoResp
          ELSE /\ pc' = "done"
               /\ resp' = HandlerCatch(IF Throws(e.env) THEN Thrown
                                       ELSE Returns(Immediate(e.r)))
  /\ UNCHANGED <<procVars, tokRes, log, calls, loopVars>>

\* const accessToken = await getAccessToken(request, userId)
GetAccessToken ==
  /\ pc = "token"
  /\ \E getOut \in {"ok", "fail"}, refOut \in RefreshResponses,
        putOut \in {"ok", "fail"} :
       LET r == getAccessToken(req, getOut, refOut, putOut) IN
         /\ tokRes' = r.res
         /\ log' = log \o r.log
         /\ store' = r.store
         /\ secretReads' = secretReads + Cardinality({i \in 1..Len(r.log) :
                                                         r.log[i].op = "getSecretValue"})
  /\ pc' = "handle"
  /\ UNCHANGED <<store0, now, staticToken, event, req, calls, loopVars, resp, race>>

\* What ApiClient throws: a plain Error; it has a message and no response.
ApiError(message) == [message |-> message, status |-> ""]

\* handleCheckPlantHealth, the inner catch (apiError) of the call without a token.
HealthNoTokenCatch(apiError) ==
  IF apiError.status \in {"401", "403"}
  THEN Response(LinkHealthText, "LinkAccount", FALSE, TRUE)
  ELSE createErrorResponse(HealthApology)

\* handleCheckPlantHealth after the token is resolved.
CheckPlantHealth ==
  /\ pc = "handle" /\ req.intent = "CheckPlantHealthIntent"
  /\ IF tokRes.kind = "throw"
     THEN /\ resp' = createErrorResponse(HealthApology)
          /\ calls' = calls
          /\ world' = world
     ELSE \E o \in HttpFail \cup HealthStatuses :
            /\ calls' = calls \cup {ApiCall("checkPlantHealth", tokRes.token)}
            /\ world' = [world EXCEPT !.first = o,
                                      !.err = IF o \in HttpFail
                                              THEN ApiFailure("checkPlantHealth", o)
                                              ELSE NoErr]
            /\ resp' =
                 IF o \in HttpFail
                 THEN IF tokRes.kind = "tok"
                      THEN createErrorResponse(HealthApology)
                      ELSE HealthNoTokenCatch(ApiError(CheckPlantHealthError(o)))
                 ELSE Response(ApiStatus(o), "Simple", FALSE, TRUE)
  /\ pc' = "done"
  /\ UNCHANGED <<procVars, event, req, tokRes, log, teams, ti, matchingTeam, plantsLeft, acc, lastPlant>>

TeamNamesText == "Your teams are:"
FallbackGeneric == "I didn't understand."

\* (variant: the fallback case ends with the error response)
GenericReprompt_Error == createErrorResponse(FallbackGeneric)

\* handleIntentRequest, case AMAZON.FallbackIntent: the return after the try,
\* reached when there is no token, no team, or the catch has logged an error.
GenericReprompt == Response(FallbackGeneric, "", TRUE, FALSE)

\* handleIntentRequest, case AMAZON.FallbackIntent, after the token is resolved.
Fallback ==
  /\ pc = "handle" /\ req.intent = "AMAZON.FallbackIntent"
  /\ IF tokRes.kind # "tok"
     THEN /\ resp' = GenericReprompt
          /\ calls' = calls
          /\ world' = world
     ELSE /\ calls' = calls \cup {ApiCall("getTeams", tokRes.token)}
          /\ \/ \E o \in HttpFail :
                  /\ world' = [world EXCEPT !.first = o, !.err = ApiFailure("getTeams", o)]
                  /\ resp' = GenericReprompt
             \/ \E list \in TeamLists :
                  /\ world' = [world EXCEPT !.first = "ok", !.names = NamesOf(list)]
                  /\ resp' =
                       IF Len(list) > 0
                       THEN [Response(TeamNamesText, "", TRUE, FALSE)
                               EXCEPT !.names = ListedNames(list)]
                       ELSE GenericReprompt
  /\ pc' = "done"
  /\ UNCHANGED <<procVars, event, req, tokRes, log, teams, ti, matchingTeam, plantsLeft, acc, lastPlant>>

\* The catch of handleListPlantStatus and of handleCheckTeamPlantStatus.
StatusCatch(message, apology) ==
  IF IncludesUnauthorized(message)
  THEN Response(LinkStatusText, "", FALSE, TRUE)
  ELSE createErrorResponse(apology)

NoTeamsText == "You don't have any teams set up yet."
NoPlantsText == "You don't have any plants set up yet."
SummaryText == "plants need water"
Summary(a) ==
  [Response(SummaryText, "Simple", FALSE, TRUE) EXCEPT !.total = a.total, !.needs = a.needs]

\* handleListPlantStatus after the token is resolved, up to the loop over teams.
ListPlantStatus ==
  /\ pc = "handle" /\ req.intent = "ListPlantStatusIntent"
  /\ IF tokRes.kind = "throw"
     THEN /\ resp' = StatusCatch(tokRes.msg, ListApology)
          /\ pc' = "done"
          /\ UNCHANGED <<calls, world, teams, ti>>
     ELSE IF tokRes.kind = "none"
     THEN /\ resp' = Response(LinkStatusText, "LinkAccount", FALSE, TRUE)
          /\ pc' = "done"
          /\ UNCHANGED <<calls, world, teams, ti>>
     ELSE /\ calls' = calls \cup {ApiCall("getTeams", tokRes.token)}
          /\ \/ \E o \in HttpFail :
                  /\ world' = [world EXCEPT !.first = o, !.err = ApiFailure("getTeams", o)]
                  /\ resp' = StatusCatch(GetTeamsError(o), ListApology)
                  /\ pc' = "done"
                  /\ UNCHANGED <<teams, ti>>
             \/ \E list \in TeamLists :
                  /\ world' = [world EXCEPT !.first = "ok"]
                  /\ IF Len(list) = 0
                     THEN /\ resp' = Response(NoTeamsText, "", FALSE, TRUE)
                          /\ pc' = "done"
                          /\ UNCHANGED <<teams, ti>>
                     ELSE /\ teams' = [i \in 1..Len(list) |-> list[i].id]
                          /\ ti' = 1
                          /\ pc' = "listTeam"
                          /\ resp' = resp
  /\ UNCHANGED <<procVars, event, req, tokRes, log, matchingTeam, plantsLeft, acc, lastPlant>>

\* handleListPlantStatus, for (const team of teams): getTeamDetails of the next team.
ListTeam ==
  /\ pc = "listTeam" /\ ti <= Len(teams)
  /\ calls' = calls \cup {ApiCall("getTeamDetails", tokRes.token)}
  /\ \/ \E o \in HttpFail :
          \* catch (teamError): continue with the other teams
          /\ world' = [world EXCEPT !.teamFail = @ + 1,
                                    !.err = ApiFailure("getTeamDetails", o)]
          /\ ti' = ti + 1
          /\ UNCHANGED <<plantsLeft, pc>>
     \/ \E n \in 0..MaxPlants :
          /\ world' = [world EXCEPT !.err = NoErr]
          /\ IF n = 0
             THEN ti' = ti + 1 /\ UNCHANGED <<plantsLeft, pc>>
             ELSE plantsLeft' = n /\ pc' = "listPlant" /\ ti' = ti
  /\ lastPlant' = NoPlant
  /\ UNCHANGED <<procVars, event, req, tokRes, log, teams, matchingTeam, acc, resp>>

\* (variant: a plant whose detail call failed is still pushed)
ListPlantVisit_PushFailed(p, failed, d) ==
  IF SummaryNeedsWater(p)
  THEN [summary |-> p, call |-> "", detail |-> NoDetail, needsWatered |-> TRUE,
        pushed |-> TRUE]
  ELSE IF failed
  THEN [summary |-> p, call |-> "fail", detail |-> NoDetail, needsWatered |-> FALSE,
        pushed |-> TRUE]
  ELSE [summary |-> p, call |-> "ok", detail |-> d,
        needsWatered |-> DetailNeedsWaterList(d), pushed |-> TRUE]

\* (variant: the plant detail is fetched whatever the team-detail entry says)
ListPlantVisit_AlwaysFetch(p, failed, d) ==
  IF failed
  THEN [summary |-> p, call |-> "fail", detail |-> NoDetail, needsWatered |-> FALSE,
        pushed |-> FALSE]
  ELSE [summary |-> p, call |-> "ok", detail |-> d,
        needsWatered |-> SummaryNeedsWater(p) \/ DetailNeedsWaterList(d), pushed |-> TRUE]

\* handleListPlantStatus, the watering inference for one entry of the team detail:
\* p is the entry; failed and d are what getPlantDetails answers if it is called.
ListPlantVisit(p, failed, d) ==
  IF SummaryNeedsWater(p)
  THEN [summary |-> p, call |-> "", detail |-> NoDetail, needsWatered |-> TRUE,
        pushed |-> TRUE]
  ELSE IF failed
  THEN [summary |-> p, call |-> "fail", detail |-> NoDetail, needsWatered |-> FALSE,
        pushed |-> FALSE]
  ELSE [summary |-> p, call |-> "ok", detail |-> d,
        needsWatered |-> DetailNeedsWaterList(d), pushed |-> TRUE]

\* (variant: only the plants that need water are pushed)
Push_OnlyNeedy(a, v) ==
  IF v.pushed /\ v.needsWatered
  THEN [total |-> a.total + 1, needs |-> a.needs + 1]
  ELSE a

\* allPlants.push / teamPlants.push, skipped when the visit threw
Push(a, v) ==
  IF v.pushed
  THEN [total |-> a.total + 1, needs |-> a.needs + (IF v.needsWatered THEN 1 ELSE 0)]
  ELSE a

\* Bookkeeping of what the remote API answered for the plant just visited.
Seen(w, v) ==
  [w EXCEPT !.seen = @ + 1,
            !.plantFail = @ + (IF v.call = "fail" THEN 1 ELSE 0),
            !.needing = @ + (IF v.call # "fail" /\ v.needsWatered THEN 1 ELSE 0)]

\* handleListPlantStatus, for (const plant of plants): one plant.
ListPlant ==
  /\ pc = "listPlant" /\ plantsLeft > 0
  /\ \E p \in PlantSummaries, failed \in BOOLEAN, d \in PlantDetails :
       LET v == ListPlantVisit(p, failed, d) IN
         /\ (failed => d = NoDetail)
         /\ (SummaryNeedsWater(p) => ~failed /\ d = NoDetail)
         /\ lastPlant' = v
         /\ acc' = Push(acc, v)
         /\ \E e \in (IF v.call = "fail"
                     THEN {ApiFailure("getPlantDetails", o) : o \in HttpFail}
                     ELSE {NoErr}) :
              world' = [Seen(world, v) EXCEPT !.err = e]
         /\ calls' = IF v.call = "" THEN calls
                     ELSE calls \cup {ApiCall("getPlantDetails", tokRes.token)}
  /\ plantsLeft' = plantsLeft - 1
  /\ IF plantsLeft = 1
     THEN pc' = "listTeam" /\ ti' = ti + 1
     ELSE UNCHANGED <<pc, ti>>
  /\ UNCHANGED <<procVars, event, req, tokRes, log, teams, matchingTeam, resp>>

\* handleListPlantStatus after the loops: the summary.
ListSummary ==
  /\ pc = "listTeam" /\ ti > Len(teams)
  /\ resp' = IF acc.total = 0 THEN Response(NoPlantsText, "", FALSE, TRUE) ELSE Summary(acc)
  /\ pc' = "done"
  /\ lastPlant' = NoPlant
  /\ world' = [world EXCEPT !.err = NoErr]
  /\ UNCHANGED <<procVars, event, req, tokRes, log, calls, teams, ti, matchingTeam, plantsLeft, acc>>

AskTeamText == "Which team would you like to check?"
NoSuchTeamText == "I couldn't find a team named"
TeamNoPlantsText == "team doesn't have any plants set up yet."
TeamNoDetailsText == "I couldn't retrieve the plant details for"

\* !teamName || teamName.trim() === ''
NoTeamName(n) == ~n.def \/ n.val = <<>> \/ Trim(n.val) = <<>>

\* handleCheckTeamPlantStatus after the token is resolved, up to the team match.
CheckTeamPlantStatus ==
  /\ pc = "handle" /\ req.intent = "CheckTeamPlantStatusIntent"
  /\ IF tokRes.kind = "throw"
     THEN /\ resp' = StatusCatch(tokRes.msg, TeamApology)
          /\ pc' = "done"
          /\ UNCHANGED <<calls, world, matchingTeam>>
     ELSE IF tokRes.kind = "none"
     THEN /\ resp' = Response(LinkStatusText, "LinkAccount", FALSE, TRUE)
          /\ pc' = "done"
          /\ UNCHANGED <<calls, world, matchingTeam>>
     ELSE IF NoTeamName(req.teamName)
     THEN /\ resp' = Response(AskTeamText, "", TRUE, FALSE)
          /\ pc' = "done"
          /\ UNCHANGED <<calls, world, matchingTeam>>
     ELSE /\ calls' = calls \cup {ApiCall("getTeams", tokRes.token)}
          /\ \/ \E o \in HttpFail :
                  /\ world' = [world EXCEPT !.first = o, !.err = ApiFailure("getTeams", o)]
                  /\ resp' = StatusCatch(GetTeamsError(o), TeamApology)
                  /\ pc' = "done"
                  /\ UNCHANGED matchingTeam
             \/ \E list \in TeamLists :
                  LET m == FindTeam(list, NormalizeTeamName(req.teamName.val)) IN
                  /\ world' = [world EXCEPT !.first = "ok", !.names = NamesOf(list)]
                  /\ IF Len(list) = 0
                     THEN /\ resp' = Response(NoTeamsText, "", FALSE, TRUE)
                          /\ pc' = "done"
                          /\ UNCHANGED matchingTeam
                     ELSE IF m = 0
                     THEN /\ resp' = [Response(NoSuchTeamText, "", TRUE, FALSE)
                                         EXCEPT !.names = ListedNames(list)]
                          /\ pc' = "done"
                          /\ UNCHANGED matchingTeam
                     ELSE /\ matchingTeam' = list[m]
                          /\ pc' = "teamDetails"
                          /\ resp' = resp
  /\ UNCHANGED <<procVars, event, req, tokRes, log, teams, ti, plantsLeft, acc, lastPlant>>

\* handleCheckTeamPlantStatus: getTeamDetails of the matching team.
TeamDetails ==
  /\ pc = "teamDetails"
  /\ calls' = calls \cup {ApiCall("getTeamDetails", tokRes.token)}
  /\ \/ \E o \in HttpFail :
          \* not inside a try of its own: the handler's catch answers
          /\ world' = [world EXCEPT !.teamFail = @ + 1, !.names = <<>>,
                                    !.err = ApiFailure("getTeamDetails", o)]
          /\ resp' = StatusCatch(GetTeamDetailsError(o), TeamApology)
          /\ pc' = "done"
          /\ UNCHANGED plantsLeft
     \/ \E n \in 0..MaxPlants :
          /\ world' = [world EXCEPT !.names = <<>>]
          /\ IF n = 0
             THEN /\ resp' = Response(TeamNoPlantsText, "", FALSE, TRUE)
                  /\ pc' = "done"
                  /\ UNCHANGED plantsLeft
             ELSE /\ plantsLeft' = n
                  /\ pc' = "teamPlant"
                  /\ resp' = resp
  /\ UNCHANGED <<procVars, event, req, tokRes, log, teams, ti, matchingTeam, acc, lastPlant>>

\* handleCheckTeamPlantStatus, the watering inference for one plant.
TeamPlantVisit(failed, d) ==
  IF failed
  THEN [summary |-> NoSummary, call |-> "fail", detail |-> NoDetail, needsWatered |-> FALSE,
        pushed |-> FALSE]
  ELSE [summary |-> NoSummary, call |-> "ok", detail |-> d,
        needsWatered |-> DetailNeedsWaterTeam(d), pushed |-> TRUE]

\* handleCheckTeamPlantStatus, for (const plant of plants): one plant.
TeamPlant ==
  /\ pc = "teamPlant" /\ plantsLeft > 0
  /\ \E failed \in BOOLEAN, d \in PlantDetails :
       LET v == TeamPlantVisit(failed, d) IN
         /\ (failed => d = NoDetail)
         /\ lastPlant' = v
         /\ acc' = Push(acc, v)
         /\ \E e \in (IF v.call = "fail"
                     THEN {ApiFailure("getPlantDetails", o) : o \in HttpFail}
                     ELSE {NoErr}) :
              world' = [Seen(world, v) EXCEPT !.err = e]
  /\ calls' = calls \cup {ApiCall("getPlantDetails", tokRes.token)}
  /\ plantsLeft' = plantsLeft - 1
  /\ UNCHANGED <<procVars, pc, event, req, tokRes, log, teams, ti, matchingTeam, resp>>

\* handleCheckTeamPlantStatus after the loop: the summary.
TeamSummary ==
  /\ pc = "teamPlant" /\ plantsLeft = 0
  /\ resp' = IF acc.total = 0 THEN Response(TeamNoDetailsText, "", FALSE, TRUE)
              ELSE Summary(acc)
  /\ pc' = "done"
  /\ lastPlant' = NoPlant
  /\ world' = [world EXCEPT !.err = NoErr]
  /\ UNCHANGED <<procVars, event, req, tokRes, log, calls, teams, ti, matchingTeam, plantsLeft, acc>>

\* The response has been returned; the next event may arrive.
Return ==
  /\ pc = "done"
  /\ pc' = "idle"
  /\ event' = NoEvent
  /\ req' = NoReq /\ tokRes' = NoRes /\ log' = <<>> /\ calls' = {} /\ resp' = NoResp
  /\ teams' = <<>> /\ ti' = 0 /\ matchingTeam' = NoTeam /\ plantsLeft' = 0
  /\ acc' = NoPlants /\ lastPlant' = NoPlant /\ world' = NoWorld
  /\ store0' = store
  /\ UNCHANGED <<store, now, staticToken, secretReads, race>>

\* Time passes between invocations.
Tick ==
  /\ pc = "idle"
  /\ now < MaxTime
  /\ now' = now + 1
  /\ UNCHANGED <<store, store0, staticToken, secretReads, pc, event, req, tokRes, log, calls, loopVars, resp,
                 race>>

\* The execution environment is recycled: the next event meets a new process.
ColdStart ==
  /\ pc = "idle"
  /\ secretReads > 0
  /\ secretReads' = 0
  /\ UNCHANGED <<store, store0, now, staticToken, pc, event, req, tokRes, log, calls, loopVars,
                 resp, race>>

Next ==
  \/ Receive
  \/ ColdStart
  \/ GetAccessToken
  \/ CheckPlantHealth
  \/ Fallback
  \/ ListPlantStatus
  \/ ListTeam
  \/ ListPlant
  \/ ListSummary
  \/ CheckTeamPlantStatus
  \/ TeamDetails
  \/ TeamPlant
  \/ TeamSummary
  \/ Return
  \/ Tick

Spec == Init /\ [][Next]_vars

(* ------------------- two invocations at the same time ------------------ *)
\* What the token endpoint answers during the race: each call may be given a
\* token of its own.
RaceResponses ==
  { [ok |-> TRUE, access_token |-> <<"at", n>>, refresh_token |-> NoTok, expires_in |-> x] :
      n \in 1..MaxRaceIssued, x \in 1..MaxExpiresIn }
  \cup {RefreshFailed}

\* Invocation i has its result: a token, none, or an error raised.
Finished(i, res) == [race EXCEPT !.inv[i].pc = "done", !.inv[i].result = res]

\* The variables of the invocation that is followed alone.
soloVars == <<store0, staticToken, secretReads, pc, event, req, tokRes, log, calls, loopVars, resp>>

\* getAccessToken of invocation i up to the answer of the token table: it has
\* no embedded token; it ends here unless the record is expired and has a
\* refresh token.
RaceGetTokens(i) ==
  /\ race.inv[i].pc = "start"
  /\ \E getOut \in {"ok", "fail"} :
       LET got == getTokens(RaceUser, getOut) IN
         race' =
           IF ~got.found
           THEN Finished(i, IF Truthy(staticToken)
                            THEN [kind |-> "tok", token |-> staticToken, source |-> "static",
                                  msg |-> ""]
                            ELSE [kind |-> "none", token |-> NoTok, source |-> "", msg |-> ""])
           ELSE IF ~Expired(now, got.tokens)
           THEN Finished(i, [kind |-> "tok", token |-> got.tokens.accessToken,
                             source |-> "store", msg |-> ""])
           ELSE IF ~Truthy(got.tokens.refreshToken)
           THEN Finished(i, [kind |-> "throw", token |-> NoTok, source |-> "",
                             msg |-> "No refresh token available"])
           ELSE [race EXCEPT !.inv[i].pc = "refresh", !.inv[i].tokens = got.tokens]
  /\ UNCHANGED <<store, now, soloVars>>

\* ensureValidTokens of invocation i: the token endpoint answers.
RaceRefresh(i) ==
  /\ race.inv[i].pc = "refresh"
  /\ \E refOut \in RaceResponses :
       race' =
         IF ~refOut.ok
         THEN Finished(i, [kind |-> "throw", token |-> NoTok, source |-> "",
                           msg |-> "Request failed"])
         ELSE [race EXCEPT !.inv[i].pc = "put", !.inv[i].response = refOut]
  /\ UNCHANGED <<store, now, soloVars>>

\* updateTokens of invocation i: the put reaches the table, or fails.
RacePut(i) ==
  /\ race.inv[i].pc = "put"
  /\ \/ /\ race' = Finished(i, [kind |-> "throw", token |-> NoTok, source |-> "",
                                 msg |-> "Put failed"])
        /\ store' = store
     \/ /\ store' = PutItem(store, RaceUser, UpdatedItem(now, race.inv[i].response))
        /\ race' = [race EXCEPT !.inv[i].pc = "written", !.writes = Append(@, i)]
  /\ UNCHANGED <<now, soloVars>>

\* ensureValidTokens of invocation i returns the new token set.
RaceReturn(i) ==
  /\ race.inv[i].pc = "written"
  /\ race' = Finished(i, [kind |-> "tok",
                          token |-> RefreshedTokens(now, race.inv[i].tokens,
                                                    race.inv[i].response).accessToken,
                          source |-> "refresh", msg |-> ""])
  /\ UNCHANGED <<store, now, soloVars>>

\* Time passes while the two invocations run.
RaceTick ==
  /\ now < MaxTime
  /\ now' = now + 1
  /\ UNCHANGED <<store, race, soloVars>>

RaceNext ==
  \/ \E i \in Invocations : RaceGetTokens(i)
  \/ \E i \in Invocations : RaceRefresh(i)
  \/ \E i \in Invocations : RacePut(i)
  \/ \E i \in Invocations : RaceReturn(i)
  \/ RaceTick

RaceSpec == Init /\ [][RaceNext]_vars

(* ---------------------- the invocation in progress --------------------- *)
\* getAccessToken has returned or thrown in the invocation in progress.
Resolved == tokRes.kind # "unset"

\* The event carries an access token in context.System.user or session.user.
Embedded == Truthy(req.ctxTok) \/ Truthy(req.sesTok)

LogOps(op) == {i \in 1..Len(log) : log[i].op = op}

\* The read of the token table failed (getTokens then answers null).
ReadFailed == \E i \in LogOps("get") : log[i].res = "fail"

\* There is a stored record for the event's user and no read of it failed.
GotRecord == req.user \in DOMAIN store0 /\ ~ReadFailed

\* The record read was past its expiry.
RecordExpired == now >= store0[req.user].expiresAt

RefreshSucceeded == \E i \in LogOps("refresh") : log[i].res = "ok"
RefreshFailure == \E i \in LogOps("refresh") : log[i].res = "fail"
PutSucceeded == \E i \in LogOps("put") : log[i].res = "ok"

\* No other key of the table is touched.
OthersUntouched ==
  /\ DOMAIN store = DOMAIN store0 \cup (IF PutSucceeded THEN {req.user} ELSE {})
  /\ \A u \in DOMAIN store0 : u # req.user => store[u] = store0[u]

(* -------------------------------- C1 ----------------------------------- *)
\* C1: whenever the event carries an embedded access token (context.System.user
\* first, else session.user), getAccessToken returns that token, and during the
\* invocation the token table is never read, no refresh call is made and the
\* static fallback token is not used: no call to the table, the secret store or
\* the token endpoint is logged and the table is left as it was.
C1_EmbeddedTokenWins ==
  Embedded =>
    /\ log = <<>>
    /\ store = store0
    /\ Resolved =>
         /\ tokRes.kind = "tok"
         /\ tokRes.token = (IF Truthy(req.ctxTok) THEN req.ctxTok ELSE req.sesTok)
         /\ tokRes.token # staticToken
         /\ \A c \in calls : c.tok = tokRes.token

C1_Witness ==
  /\ pc = "done" /\ Embedded /\ tokRes.kind = "tok"
  /\ ~Truthy(req.ctxTok) /\ tokRes.token = req.sesTok
  /\ req.user \in DOMAIN store /\ Truthy(staticToken)
  /\ calls # {}

(* -------------------------------- C2 ----------------------------------- *)
\* C2: when the event has no embedded token and the table holds a record of
\* the user (and reads it) whose expiry has not passed, the stored access token is returned
\* unchanged, and the invocation makes no refresh call and no write to the
\* table (its only call is the one read).
C2_ValidStoredTokenNoRefresh ==
  (Resolved /\ ~Embedded /\ GotRecord /\ ~RecordExpired) =>
    /\ tokRes.kind = "tok"
    /\ tokRes.token = store0[req.user].token
    /\ Len(log) = 1
    /\ store = store0

C2_Witness ==
  /\ pc = "done" /\ ~Embedded /\ GotRecord /\ ~RecordExpired
  /\ tokRes.token = <<"st", 0>> /\ calls # {}
  /\ Truthy(store[req.user].refreshToken)

C4_ResolutionOrder ==
  Resolved =>
    /\ Embedded => tokRes.kind = "tok" /\ tokRes.token \in {req.ctxTok, req.sesTok}
    /\ (~Embedded /\ GotRecord) =>
         \/ tokRes.kind = "throw"
         \/ tokRes.kind = "tok" /\ tokRes.token # staticToken
    /\ (~Embedded /\ ~GotRecord /\ Truthy(staticToken)) =>
         tokRes.kind = "tok" /\ tokRes.token = staticToken
    /\ (tokRes.kind = "tok" /\ tokRes.token = staticToken) => (~Embedded /\ ~GotRecord)
    /\ tokRes.kind = "none" <=> (~Embedded /\ ~GotRecord /\ ~Truthy(staticToken))

C4_Witness ==
  /\ pc = "done" /\ ~Embedded /\ req.user \notin DOMAIN store0
  /\ tokRes.kind = "tok" /\ tokRes.token = EnvTok
  /\ \E c \in calls : c.tok = EnvTok

(* -------------------------------- C5 ----------------------------------- *)
\* C5: when the record read is expired and either it has no refresh token or
\* the refresh call fails, the resolver raises an error; it does not return the
\* static fallback token even when one is configured, and the invocation ends
\* without any call to the remote plant API (so none under the static token).
NoUsableRefresh ==
  /\ ~Embedded /\ GotRecord /\ RecordExpired
  /\ \/ ~Truthy(store0[req.user].refreshToken)
     \/ RefreshFailure

C5_RefreshFailureRaises ==
  (Resolved /\ NoUsableRefresh) =>
    /\ tokRes.kind = "throw"
    /\ ~(\E c \in calls : c.tok = staticToken)
    /\ calls = {}
    /\ store = store0

C5_Witness ==
  /\ pc = "done" /\ NoUsableRefresh /\ RefreshFailure
  /\ Truthy(staticToken) /\ tokRes.kind = "throw"

(* -------------------------------- C6 ----------------------------------- *)
IsLinkSpeech(r) == r.speech \in {LinkHealthText, LinkStatusText}

\* C6: health-check intent, no token from any of the three sources, the
\* unauthenticated health call answered with HTTP 401: the response carries a
\* LinkAccount card and the account-linking speech and ends the session.
C6_HealthNoToken401LinksAccount ==
  (pc = "done" /\ req.intent = "CheckPlantHealthIntent" /\ tokRes.kind = "none"
     /\ world.first = "401") =>
    /\ resp.card = "LinkAccount"
    /\ IsLinkSpeech(resp)
    /\ resp.shouldEndSession

(* -------------------------------- C7 ----------------------------------- *)
StatusIntents ==
  {"CheckPlantHealthIntent", "ListPlantStatusIntent", "CheckTeamPlantStatusIntent"}

\* C7: when the stored token is expired and there is no usable refresh (no
\* refresh token stored, or the refresh call fails), the health-check,
\* list-status and team-status intents answer with the account-linking
\* message, not the generic apology.
C7_ExpiredUnrefreshableLinksAccount ==
  (pc = "done" /\ req.intent \in StatusIntents /\ NoUsableRefresh) => IsLinkSpeech(resp)

(* -------------------------------- C8 ----------------------------------- *)
\* C8: when a token was resolved and the remote API rejects it with HTTP 401 on
\* the first call of the intent, each of the health-check, list-status and
\* team-status intents answers with the account-linking instructions and ends
\* the session.
C8_RejectedTokenLinksAccount ==
  (pc = "done" /\ req.intent \in StatusIntents /\ tokRes.kind = "tok"
     /\ world.first = "401") =>
    /\ IsLinkSpeech(resp)
    /\ resp.shouldEndSession

(* -------------------------------- C9 ----------------------------------- *)
ListLoopDone ==
  /\ pc = "done" /\ req.intent = "ListPlantStatusIntent"
  /\ tokRes.kind = "tok" /\ world.first = "ok" /\ Len(teams) > 0

\* C9: list-status intent, for any set of teams and any subset of failing
\* team-detail or plant-detail calls: the handler answers from the aggregate and
\* never with the error response; the reported total counts exactly the plants
\* of the teams whose detail call succeeded whose own detail call, if one was
\* needed, did not fail, the needs-water count is the number of those that need
\* water, and the "no plants" answer is given exactly when there is no such
\* plant.
C9_ListSurvivesPartialFailures ==
  ListLoopDone =>
    /\ resp.speech \in {SummaryText, NoPlantsText}
    /\ resp.speech = NoPlantsText <=> world.seen - world.plantFail = 0
    /\ resp.speech = SummaryText =>
         /\ resp.total = world.seen - world.plantFail
         /\ resp.needs = world.needing
         /\ resp.card = "Simple"
    /\ resp.shouldEndSession

C9_Witness ==
  /\ ListLoopDone /\ Len(teams) = 2
  /\ world.teamFail = 1 /\ world.plantFail = 1
  /\ resp.speech = SummaryText /\ resp.total = 1 /\ resp.needs = 1

(* -------------------------------- C10 ---------------------------------- *)
\* C10: team-status intent: a failure of the team-detail fetch or of any
\* plant-detail fetch during the aggregation is caught and treated as "exclude
\* this entity"; it never turns the response into the error/apology response.
C10_TeamSurvivesFetchFailures ==
  (pc = "done" /\ req.intent = "CheckTeamPlantStatusIntent"
     /\ (world.teamFail > 0 \/ world.plantFail > 0)) =>
    /\ resp.speech # TeamApology
    /\ ~IsLinkSpeech(resp)

(* -------------------------------- C11 ---------------------------------- *)
\* One iteration of for (const plant of plants) has just run.
ListPlantStep == pc = "listPlant" /\ plantsLeft' = plantsLeft - 1
TeamPlantStep == pc = "teamPlant" /\ plantsLeft' = plantsLeft - 1

\* The entry of the team detail says the plant needs water.
SummarySaysNeedsWater(p) ==
  \/ p.status \in {"needs_water", "needs water"}
  \/ p.needs_water
  \/ p.needsWater

\* C11: list-status handler: for a plant whose team-detail entry already says
\* it needs water (status 'needs_water' or 'needs water', or needs_water or
\* needsWater true), the iteration issues no plant-detail call and the plant is
\* counted, as needing water.
C11_SummaryNeedsWaterSkipsDetail ==
  [][(ListPlantStep /\ SummarySaysNeedsWater(lastPlant'.summary)) =>
       /\ lastPlant'.call = ""
       /\ calls' = calls
       /\ acc'.total = acc.total + 1
       /\ acc'.needs = acc.needs + 1]_vars

C11_Witness ==
  /\ pc = "listPlant" /\ req.intent = "ListPlantStatusIntent"
  /\ lastPlant.summary.status = "" /\ lastPlant.summary.needsWater
  /\ lastPlant.call = "" /\ lastPlant.needsWatered
  /\ acc = [total |-> 1, needs |-> 1]
  /\ ~(\E c \in calls : c.op = "getPlantDetails")

(* -------------------------------- C12 ---------------------------------- *)
\* Nothing says the plant needs water: not the entry of the team detail, not
\* the plant detail, not its latest checkup (checkups[0]) if it has one.
NoIndication(v) ==
  /\ ~SummarySaysNeedsWater(v.summary)
  /\ v.detail.status \notin {"needs_water", "needs water"}
  /\ ~v.detail.needs_water /\ ~v.detail.needsWater
  /\ Len(v.detail.checkups) > 0 =>
       /\ v.detail.checkups[1].status \notin {"needs_water", "needs water"}
       /\ ~v.detail.checkups[1].needs_watered
       /\ ~v.detail.checkups[1].needsWatered

\* C12: in the list-status and in the team-status handler, a plant whose detail
\* was fetched and for which neither the team summary, nor the plant detail, nor
\* the latest checkup (or the absence of checkups) indicates a need of water is
\* classified as not needing water and is still counted in the total.
C12_NoIndicationNotNeedingWater ==
  [][((ListPlantStep \/ TeamPlantStep) /\ lastPlant'.call = "ok"
        /\ NoIndication(lastPlant')) =>
       /\ ~lastPlant'.needsWatered
       /\ acc'.total = acc.total + 1
       /\ acc'.needs = acc.needs]_vars

C12_Witness ==
  /\ pc = "teamPlant" /\ req.intent = "CheckTeamPlantStatusIntent"
  /\ lastPlant.call = "ok" /\ NoIndication(lastPlant)
  /\ lastPlant.detail.checkups = <<>> /\ ~lastPlant.needsWatered
  /\ acc = [total |-> 2, needs |-> 0] /\ plantsLeft = 0

(* -------------------------------- C13 ---------------------------------- *)
\* Two characters are the same letter, whatever their case.
SameLetter(a, b) == a = b \/ {a, b} \in {{"k", "K"}, {"t", "T"}, {"o", "O"}}

\* s spells n with some of its letters in the other case.
CaseVariant(s, n) == Len(s) = Len(n) /\ \A i \in 1..Len(n) : SameLetter(s[i], n[i])

\* s is a case variant of n, or one behind the word 'team' and a space.
SpokenFor(s, n) ==
  \/ CaseVariant(s, n)
  \/ /\ Len(s) = Len(n) + 5
     /\ CaseVariant(SubSeq(s, 1, 5), <<"t", "e", "a", "m", " ">>)
     /\ CaseVariant(SubSeq(s, 6, Len(s)), n)

\* The team handler has fetched the team list and made the match: it is about
\* to fetch the details of matchingTeam, or it has answered without one.
TeamListFetched ==
  /\ req.intent = "CheckTeamPlantStatusIntent" /\ tokRes.kind = "tok"
  /\ req.teamName.def /\ world.first = "ok"
  /\ pc \in {"teamDetails", "done"}

\* C13: team-status intent: when the spoken name is a case variant, optionally
\* behind 'team ', of the (non-empty) name of one of the teams the API returned,
\* a team is selected (the handler goes on to that team's details instead of
\* answering that it found no such team), and when that team is the only one it
\* is the one selected.
C13_TeamNameMatchIgnoresCaseAndPrefix ==
  (TeamListFetched
     /\ \E i \in 1..Len(world.names) :
          world.names[i] # <<>> /\ SpokenFor(req.teamName.val, world.names[i])) =>
    /\ matchingTeam.id \in 1..Len(world.names)
    /\ resp.speech # NoSuchTeamText
    /\ Len(world.names) = 1 => matchingTeam = [id |-> 1, name |-> world.names[1]]

C13_Witness ==
  /\ TeamListFetched /\ pc = "teamDetails"
  /\ req.teamName.val = <<"T", "e", "a", "m", " ", "o">>
  /\ world.names = <<<<"k">>, <<"O">>>>
  /\ matchingTeam = [id |-> 2, name |-> <<"O">>]

(* -------------------------------- C14 ---------------------------------- *)
\* How many of the teams returned match the spoken name.
MatchCount ==
  Cardinality({ i \in 1..Len(world.names) :
                  TeamMatches([name |-> world.names[i]],
                              NormalizeTeamName(req.teamName.val)) })

\* The team handler has made the match over a team list that is not empty.
TeamMatchDone ==
  /\ TeamListFetched
  /\ ~NoTeamName(req.teamName) /\ Len(world.names) > 0

\* C14: team-status intent: when the spoken name matches no team, or matches
\* more than one team, the response lists the names of all the teams, carries a
\* reprompt and keeps the session open, and no team-detail or plant-detail call
\* is made.
C14_NoOrAmbiguousMatchReprompts ==
  (TeamMatchDone /\ MatchCount # 1) =>
    /\ pc = "done"
    /\ matchingTeam = NoTeam
    /\ resp.speech = NoSuchTeamText
    /\ resp.names = [i \in 1..Len(world.names) |->
                       IF world.names[i] = <<>> THEN UnnamedTeam ELSE world.names[i]]
    /\ resp.reprompt
    /\ ~resp.shouldEndSession
    /\ ~(\E c \in calls : c.op \in {"getTeamDetails", "getPlantDetails"})

(* -------------------------------- C15 ---------------------------------- *)
\* The event is a launch or an intent the dispatcher has a case for.
Supported ==
  \/ req.type = "LaunchRequest"
  \/ req.type = "IntentRequest" /\ req.intent \in Intents \ {"Other"}

\* The cases that ask the user to speak again: launch, help, fallback, and the
\* team intent with a token when the team name is missing or matches no team.
RepromptCase ==
  \/ req.type = "LaunchRequest"
  \/ /\ req.type = "IntentRequest"
     /\ \/ req.intent \in {"AMAZON.HelpIntent", "AMAZON.FallbackIntent"}
        \/ /\ req.intent = "CheckTeamPlantStatusIntent" /\ tokRes.kind = "tok"
           /\ \/ NoTeamName(req.teamName)
              \/ /\ world.first = "ok" /\ matchingTeam = NoTeam
                 /\ Len(world.names) > 0 /\ MatchCount = 0

\* C15: for a launch and for every supported intent, whatever token resolution
\* and the remote calls answer, the response has a non-empty spoken text, and
\* shouldEndSession is false exactly for launch, help and the reprompt cases
\* (missing team name, no matching team, fallback) and true for stop/cancel and
\* every terminal result or error.
C15_SpeechAndSessionFlag ==
  (pc = "done" /\ Supported) =>
    /\ resp.speech # ""
    /\ resp.shouldEndSession <=> ~RepromptCase

C15_Witness ==
  /\ pc = "done" /\ req.intent = "CheckTeamPlantStatusIntent"
  /\ tokRes.kind = "tok" /\ tokRes.source = "refresh"
  /\ world.names = <<<<"k">>, <<"O">>>> /\ req.teamName.val = <<"m">>
  /\ resp.speech = NoSuchTeamText /\ ~resp.shouldEndSession

(* -------------------------------- C16 ---------------------------------- *)
Scripted ==
  \/ req.type = "LaunchRequest"
  \/ /\ req.type = "IntentRequest"
     /\ req.intent \in {"AMAZON.HelpIntent", "AMAZON.StopIntent", "AMAZON.CancelIntent"}

\* C16: launch, help, stop and cancel are answered at once with a fixed response,
\* whatever the token table, the static token, the clock and the envelope are:
\* no token is resolved, the token table is not read, nothing is refreshed and
\* no remote call is made.  The launch text is the welcome and the session stays
\* open; help keeps the session open with a reprompt; stop and cancel end it.
C16_ScriptedResponses ==
  Scripted =>
    /\ pc = "done"
    /\ tokRes = NoRes /\ log = <<>> /\ calls = {} /\ store = store0
    /\ req.type = "LaunchRequest" =>
         /\ resp.speech = "Welcome to Plant Ranger Check!"
         /\ ~resp.shouldEndSession
    /\ req.intent = "AMAZON.HelpIntent" =>
         /\ resp.speech = "Plant Ranger Check can help you monitor your plant health."
         /\ ~resp.shouldEndSession /\ resp.reprompt
    /\ req.intent \in {"AMAZON.StopIntent", "AMAZON.CancelIntent"} =>
         /\ resp.speech = "Goodbye! Take care of your plants!"
         /\ resp.shouldEndSession

C16_Witness ==
  /\ pc = "done" /\ req.type = "LaunchRequest" /\ event.resource
  /\ req.user \in DOMAIN store /\ now >= store[req.user].expiresAt
  /\ Truthy(store[req.user].refreshToken) /\ ~Truthy(staticToken)
  /\ resp.speech = "Welcome to Plant Ranger Check!" /\ ~resp.shouldEndSession

(* -------------------------------- C17 ---------------------------------- *)
\* The event has a request whose type, or whose intent name, the dispatcher has
\* no case for.
Unknown ==
  /\ pc # "idle" /\ ~Throws(event)
  /\ \/ req.type \notin {"LaunchRequest", "IntentRequest", "SessionEndedRequest"}
     \/ req.type = "IntentRequest" /\ req.intent \notin Intents \ {"Other"}

\* C17: an unknown request type or an unknown intent name is answered at once
\* by the generic error response: a spoken message, no card, no reprompt,
\* shouldEndSession true; no token is resolved and no remote call is made.
C17_UnknownIsGenericError ==
  Unknown =>
    /\ pc = "done"
    /\ resp.speech \in {"Unknown request type", "I didn't understand that. Please try again."}
    /\ resp.card = "" /\ ~resp.reprompt /\ resp.shouldEndSession
    /\ tokRes = NoRes /\ log = <<>> /\ calls = {} /\ store = store0

C17_Witness ==
  /\ pc = "done" /\ req.type = "IntentRequest" /\ req.intent = "Other"
  /\ event.body = "string" /\ req.user \in DOMAIN store
  /\ resp.speech = "I didn't understand that. Please try again." /\ resp.shouldEndSession

(* -------------------------------- C18 ---------------------------------- *)
\* A response Alexa can act on: it says something unless it only ends the session.
WellFormedResponse(r) ==
  /\ r.shouldEndSession \in BOOLEAN
  /\ ~r.shouldEndSession => r.speech # ""
  /\ r.reprompt => r.speech # ""
  /\ r.speech = "" => req.type = "SessionEndedRequest"

\* C18: whatever the inbound event is (a body that is no JSON, no request in it,
\* an IntentRequest without an intent) and whatever token resolution and the
\* remote calls answer, the handler returns a well-formed response; an error
\* that no intent handler caught is answered by the fixed apology with
\* shouldEndSession true, and no call was made on the way.
C18_EntryPointNeverFails ==
  pc = "done" =>
    /\ WellFormedResponse(resp)
    /\ Throws(event) =>
         /\ resp.speech = HandlerApology
         /\ resp.shouldEndSession /\ resp.card = "" /\ ~resp.reprompt
         /\ log = <<>> /\ calls = {}

C18_Witness ==
  /\ pc = "done" /\ event.shape = "noIntent" /\ event.body = "string" /\ event.resource
  /\ req.type = "IntentRequest"
  /\ resp.speech = HandlerApology /\ resp.shouldEndSession

(* -------------------------------- C19 ---------------------------------- *)
\* The kind of an error of ApiClient, by its message.
ErrorKind(message) ==
  CASE message = "Unauthorized - please link your account" -> "Unauthorized"
    [] message \in {"Team not found", "Plant not found"} -> "NotFound"
    [] message = "Plant health service is temporarily unavailable" -> "ServiceUnavailable"
    [] message = "Request timeout - please try again" -> "Timeout"
    [] OTHER -> "Failed"

\* C19: whichever of the four calls (health check, list teams, team detail,
\* plant detail) fails, the error it throws is of the kind Unauthorized for
\* HTTP 401, NotFound for 404, ServiceUnavailable for 5xx and Timeout for a
\* timeout, and of the generic kind Failed for any other failure.
C19_ErrorKinds ==
  world.err.op # "" =>
    ErrorKind(world.err.message) =
      CASE world.err.status = "401" -> "Unauthorized"
        [] world.err.status = "404" -> "NotFound"
        [] world.err.status = "500" -> "ServiceUnavailable"
        [] world.err.status = "timeout" -> "Timeout"
        [] OTHER -> "Failed"

(* -------------------------------- C20 ---------------------------------- *)
\* C20: over all the invocations one process handles, however many of them
\* refresh a token, the secret store is read at most once: the first refresh
\* reads it and the later ones use the cached credentials.
C20_SecretReadOncePerProcess == secretReads <= 1

(* -------------------------------- C21 ---------------------------------- *)
\* C21: team-status intent: a plant of the matched team whose detail was fetched
\* is classified needs-water exactly when the list-status handler classifies a
\* plant with the same team-detail entry and the same plant detail needs-water
\* (team-detail entry, then plant detail, then latest checkup, with the same
\* accepted spellings).
C21_TeamInferenceSameAsList ==
  (pc = "teamPlant" /\ lastPlant.call = "ok") =>
    lastPlant.needsWatered =
      ListPlantVisit(lastPlant.summary, FALSE, lastPlant.detail).needsWatered

(* -------------------------------- C22 ---------------------------------- *)
\* The fallback intent has been answered.
FallbackDone == pc = "done" /\ req.type = "IntentRequest" /\ req.intent = "AMAZON.FallbackIntent"

\* A token was resolved and the team list came back with at least one team.
FallbackHasTeams == tokRes.kind = "tok" /\ world.first = "ok" /\ Len(world.names) > 0

\* C22: fallback intent: when a token is resolved and the team list is fetched
\* and not empty, the response lists the names of the teams ('Unnamed Team' for
\* a team without one) and asks again; in every other case (no token, token
\* resolution raised, the team list failed or is empty) it is the generic
\* reprompt; in all cases there is a reprompt, the session stays open and the
\* team list is the only remote call, made only with a token.
C22_FallbackBestEffort ==
  FallbackDone =>
    /\ FallbackHasTeams =>
         /\ resp.speech = TeamNamesText
         /\ resp.names = [i \in 1..Len(world.names) |->
                            IF world.names[i] = <<>> THEN UnnamedTeam ELSE world.names[i]]
    /\ ~FallbackHasTeams => resp.speech = FallbackGeneric /\ resp.names = <<>>
    /\ resp.reprompt /\ ~resp.shouldEndSession /\ resp.card = ""
    /\ \A c \in calls : c.op = "getTeams" /\ tokRes.kind = "tok" /\ c.tok = tokRes.token

C22_Witness ==
  /\ FallbackDone /\ FallbackHasTeams /\ tokRes.source = "store"
  /\ world.names = <<<<>>, <<"k">>>>
  /\ resp.speech = TeamNamesText /\ resp.names = <<UnnamedTeam, <<"k">>>>
  /\ ~resp.shouldEndSession

(* -------------------------------- C24 ---------------------------------- *)
\* C24: when the event has a body that is the JSON text of an Alexa request (an
\* API Gateway event, or the event local-test.js builds), the handler returns a
\* proxy result with statusCode 200 and a body that is the JSON text of the
\* Alexa response, whether the request was handled or the catch answered.
C24_StringBodyGetsProxyResult ==
  (pc = "done" /\ event.body = "string") =>
    /\ HandlerResult(event, resp).statusCode = 200
    /\ HandlerResult(event, resp).body = Stringify(resp)

(* -------------------------------- C27 ---------------------------------- *)
\* The name of a team contains, or is contained in, the normalized spoken name.
NameMatches(name, normalized) ==
  \/ Includes(ToLowerCase(name), normalized)
  \/ Includes(normalized, ToLowerCase(name))

\* C27: team-status intent: the team selected is the first one, in the order
\* the API returned them, whose lowercased name contains or is contained in
\* the normalized spoken name, and its name is not empty: a team with an empty
\* or missing name is never the one selected.
C27_FirstMatchHasName ==
  (TeamListFetched /\ pc = "teamDetails") =>
    LET normalized == NormalizeTeamName(req.teamName.val) IN
      /\ normalized # <<>>
      /\ matchingTeam.id \in 1..Len(world.names)
      /\ matchingTeam.name = world.names[matchingTeam.id]
      /\ NameMatches(matchingTeam.name, normalized)
      /\ \A j \in 1..(matchingTeam.id - 1) : ~NameMatches(world.names[j], normalized)
      /\ matchingTeam.name # <<>>

(* -------------------------------- C23 ---------------------------------- *)
\* Invocation i has gone through a refresh of its own up to the put.
Wrote(i) == \E k \in 1..Len(race.writes) : race.writes[k] = i

\* The invocation whose put reached the table last.
LastWriter == race.writes[Len(race.writes)]

\* C23: two invocations for the same user at the same time, with no lock
\* between them: an invocation that read the expired record gets a refreshed
\* token only from a refresh call of its own followed by a put of its own (one
\* put each); the record in the table is the item of the put that came last;
\* and each invocation goes on with the access token its own refresh call
\* returned, whatever the other wrote.
C23_ConcurrentRefreshLastWriteWins ==
  /\ \A i \in Invocations :
       /\ Cardinality({k \in 1..Len(race.writes) : race.writes[k] = i}) <= 1
       /\ Wrote(i) <=> race.inv[i].pc \in {"written", "done"} /\ race.inv[i].response.ok
                        /\ race.inv[i].result.kind # "throw"
       /\ race.inv[i].result.source = "refresh" =>
            /\ Wrote(i)
            /\ Expired(now, race.inv[i].tokens)
            /\ race.inv[i].result.token = race.inv[i].response.access_token
  /\ race.writes # <<>> =>
       \E t \in 0..now :
         store[RaceUser] = UpdatedItem(t, race.inv[LastWriter].response)

\* Both read the same expired record, both refreshed and both wrote; the table
\* holds the token of the second writer and the first goes on with another one.
C23_Witness ==
  /\ race.writes = <<2, 1>>
  /\ \A i \in Invocations : race.inv[i].pc = "done" /\ race.inv[i].result.source = "refresh"
  /\ race.inv[1].tokens = race.inv[2].tokens
  /\ race.inv[1].tokens.accessToken = <<"st", 0>>
  /\ race.inv[1].result.token = <<"at", 1>> /\ race.inv[2].result.token = <<"at", 2>>
  /\ store[RaceUser].token = <<"at", 1>>

(* -------------------------------- C25 ---------------------------------- *)
\* The event has no embedded token and the record read for its user is expired
\* and has a refresh token.
ExpiredRefreshable ==
  /\ pc # "idle" /\ ~Embedded /\ GotRecord /\ RecordExpired
  /\ Truthy(store0[req.user].refreshToken)

\* C25: in an invocation whose stored token is expired and refreshable, a put
\* is only made after a refresh call that succeeded, a call to the remote plant
\* API is only made once the put is done, and every call to the remote plant
\* API carries the access token the refresh call returned, never the expired
\* one.
C25_RefreshThenWriteThenCalls ==
  ExpiredRefreshable =>
    /\ \A j \in LogOps("put") : \E i \in LogOps("refresh") : i < j /\ log[i].res = "ok"
    /\ calls # {} => PutSucceeded
    /\ \A c \in calls :
         /\ \E i \in LogOps("refresh") : log[i].res = "ok" /\ c.tok = log[i].out
         /\ c.tok # store0[req.user].token

C25_Witness ==
  /\ ExpiredRefreshable /\ pc = "done" /\ req.intent = "ListPlantStatusIntent"
  /\ log[Len(log)].op = "put" /\ log[Len(log) - 1].op = "refresh"
  /\ \E c \in calls : c.op = "getPlantDetails" /\ c.tok = <<"at", 1>>
  /\ resp.speech = SummaryText

(* -------------------------------- C26 ---------------------------------- *)
\* The token set read from the table when the event arrived.
TokensRead ==
  [accessToken |-> store0[req.user].token,
   refreshToken |-> store0[req.user].refreshToken,
   expiresAt |-> store0[req.user].expiresAt]

\* C26: the record a refresh has put keeps a refresh token, the one of the
\* token set ensureValidTokens returns (the refresh token the token endpoint
\* returned, else the one that was stored), so that the user can be refreshed
\* again at the next expiry.
C26_RefreshKeepsRefreshToken ==
  (pc # "idle" /\ PutSucceeded) =>
    /\ Truthy(store[req.user].refreshToken)
    /\ \E r \in RefreshResponses :
         /\ r.ok
         /\ store[req.user].refreshToken = RefreshedTokens(now, TokensRead, r).refreshToken

(* -------------------------------- C28 ---------------------------------- *)
\* C28: when the read of the token table fails, the resolver does not raise and
\* goes on as if there were no record: the read is its only call (no refresh,
\* no put, the table unchanged), the result is the static fallback token if
\* one is configured, none otherwise, and the remote calls carry that result.
C28_ReadFailureIsNoRecord ==
  (Resolved /\ ~Embedded /\ ReadFailed) =>
    /\ tokRes.kind # "throw"
    /\ Len(log) = 1 /\ LogOps("refresh") = {} /\ LogOps("put") = {}
    /\ store = store0
    /\ IF Truthy(staticToken)
       THEN tokRes.kind = "tok" /\ tokRes.token = staticToken
       ELSE tokRes.kind = "none"
    /\ \A c \in calls : c.tok = tokRes.token

C28_Witness ==
  /\ pc = "done" /\ ~Embedded /\ ReadFailed
  /\ req.user \in DOMAIN store0 /\ RecordExpired /\ Truthy(store0[req.user].refreshToken)
  /\ tokRes.kind = "tok" /\ tokRes.token = EnvTok
  /\ \E c \in calls : c.op = "getTeams" /\ c.tok = EnvTok

(* -------------------------------- C29 ---------------------------------- *)
PutFailed == \E i \in LogOps("put") : log[i].res = "fail"

\* C29: when the refresh call succeeds and the put of the new record fails, the
\* resolver raises, the invocation makes no call to the remote plant API (none
\* with the newly issued access token), and the table still holds the old,
\* expired record.
C29_PutFailureRaises ==
  (Resolved /\ PutFailed) =>
    /\ RefreshSucceeded
    /\ tokRes.kind = "throw"
    /\ calls = {}
    /\ \A c \in calls : \A i \in LogOps("refresh") : c.tok # log[i].out
    /\ store = store0
    /\ req.user \in DOMAIN store /\ now >= store[req.user].expiresAt

C29_Witness ==
  /\ pc = "done" /\ PutFailed /\ RefreshSucceeded
  /\ req.intent = "CheckPlantHealthIntent" /\ resp.speech = HealthApology
  /\ store[req.user].token = <<"st", 0>> /\ Truthy(staticToken)

(* -------------------------------- C30 ---------------------------------- *)
\* C30: a step changes the token table only as the put of a refresh that
\* succeeded, and then only the record of the event's user: a resolution by an
\* embedded token, a valid stored token or the static token, and one whose
\* refresh call fails, leave every record as it is; and no step removes a
\* record (a user who has a record has one in every later state).
C30_StoreWrittenOnlyByRefresh ==
  [][/\ DOMAIN store \subseteq DOMAIN store'
     /\ store' # store =>
          /\ pc = "token" /\ pc' = "handle"
          /\ tokRes'.kind = "tok" /\ tokRes'.source = "refresh"
          /\ \E i \in 1..Len(log') : log'[i].op = "refresh" /\ log'[i].res = "ok"
          /\ \E i \in 1..Len(log') : log'[i].op = "put" /\ log'[i].res = "ok"
          /\ \A u \in DOMAIN store : u # req.user => store'[u] = store[u]]_vars

C30_Witness ==
  /\ pc = "done" /\ PutSucceeded /\ tokRes.source = "refresh"
  /\ store[req.user] # store0[req.user]
  /\ "u2" \in DOMAIN store /\ store["u2"] = store0["u2"]
  /\ DOMAIN store = DOMAIN store0

====
